---- MODULE Spec2Model ----
(***************************************************************************)
(* Model of linkedin-scheduler-remote: the per-request LinkedInClient      *)
(* injection of client_patch.py (a ContextVar read through a patched       *)
(* get_client) and, in server.py, the thread-local get_db cache, the       *)
(* credential-store client builder and the publisher daemon loop.          *)
(***************************************************************************)
EXTENDS Integers, Sequences, FiniteSets, TLC

(***************************************************************************)
(* Bounds of the model.                                                    *)
(***************************************************************************)
\* deepest nesting of client_context scopes inside one logical request
MaxDepth == 2
\* number of ScheduledPostsDB objects that can be constructed in one run
MaxHandles == 3

(***************************************************************************)
(* Values.                                                                 *)
(***************************************************************************)
\* the logical requests: each runs in its own execution context
Requests == {"req1", "req2"}

\* the execution context of the main thread, which runs server.py's module body
MainContext == "MainThread"

\* the execution contexts that can call get_client
Contexts == Requests \cup {MainContext}

\* Python's None where a string is expected (person_id, db_path)
NoneStr == "None"

\* the (access_token, person_id) pairs requests are authenticated with
Credentials ==
    { [access_token |-> "tokA", person_id |-> NoneStr],
      [access_token |-> "tokB", person_id |-> "urn:li:person:B"] }

\* Python's None as a value of the context variable
None == [kind |-> "None"]

\* contextvars' marker for "this variable has no value in this context"
MISSING == [kind |-> "MISSING"]

\* LinkedInClient(access_token=..., person_id=...): a new object; made_in
\* stands for the object's identity (the execution context that built it)
LinkedInClient(access_token, person_id, made_in) ==
    [kind |-> "LinkedInClient", access_token |-> access_token,
     person_id |-> person_id, made_in |-> made_in]

VARIABLES
    boot,            \* position of the main thread in server.py's module body
    accessors,       \* the ambient accessor slots of the library modules
    installs,        \* how many times each accessor slot has been assigned
    request_client,  \* the ContextVar: execution context -> value or MISSING
    tokens,          \* per request: the reset tokens of its open client_context scopes
    pre,             \* per request: what get() returned before each open scope was entered
    phase,           \* per request: "idle", "active", "done"
    last,            \* per request: its latest operation, that operation's result, and
                     \* (expect) the client of its latest installation not yet reverted
    cache,           \* threading.local(): thread -> its db attribute (0: not set)
    handles,         \* the ScheduledPostsDB objects built so far, by identity 1..Len
    dbcall,          \* the latest _thread_local_get_db call and what it did
    store,           \* the credentials the TokenStore currently holds
    dpc,             \* position of the publisher-daemon thread in _daemon_loop
    tick,            \* the outcome of the daemon's latest run_once
    poll_interval    \* _daemon_loop's local: <<>> until line 106 binds it, then <<n>>

vars == <<boot, accessors, installs, request_client, tokens, pre, phase, last,
          cache, handles, dbcall, store, dpc, tick, poll_interval>>

ctxVars == <<request_client, tokens, pre, phase, last>>
bootVars == <<boot, accessors, installs>>
dbVars == <<cache, handles, dbcall>>
daemonVars == <<store, dpc, tick, poll_interval>>

(***************************************************************************)
(* contextvars.ContextVar("_request_client", default=None)                 *)
(***************************************************************************)
\* a plain module-level global instead of a context variable
ContextVarStoreGlobal(slot, ctx, value) == [c \in DOMAIN slot |-> value]

\* the value is stored in the calling execution context only
ContextVarStore(slot, ctx, value) == [slot EXCEPT ![ctx] = value]

\* ContextVar.get(): the context's value, or the default None
ContextVarGet(slot, ctx) == IF slot[ctx] = MISSING THEN None ELSE slot[ctx]

\* ContextVar.set(value): returns the new contents and a token holding the old value
ContextVarSet(slot, ctx, value) ==
    [slot |-> ContextVarStore(slot, ctx, value),
     token |-> [old_value |-> slot[ctx]]]

\* ContextVar.reset(token): the value the variable had before the matching set
ContextVarReset(slot, ctx, token) == ContextVarStore(slot, ctx, token.old_value)

(***************************************************************************)
(* client_patch.py                                                         *)
(***************************************************************************)
\* returns whatever get() gives, None included, instead of raising
patched_get_client_no_check(slot, ctx) ==
    [raised |-> "", value |-> ContextVarGet(slot, ctx)]

patched_get_client(slot, ctx) ==
    LET client == ContextVarGet(slot, ctx)
    IN  IF client = None
        THEN [raised |-> "RuntimeError", value |-> None]
        ELSE [raised |-> "", value |-> client]

\* the library's own get_client, the function the module attribute holds
\* until apply_patch assigns over it: the unconfigured default fails
default_get_client == [raised |-> "Unauthenticated", value |-> None]

\* a call of linkedin_mcp_scheduler.server.get_client(): runs the function
\* the module attribute holds at the time of the call
get_client(accessor, slot, ctx) ==
    IF accessor = "patched_get_client"
    THEN patched_get_client(slot, ctx)
    ELSE default_get_client

\* installs the client only when the context holds none yet
set_client_for_request_if_unset(slot, ctx, access_token, person_id) ==
    IF slot[ctx] = MISSING
    THEN ContextVarSet(slot, ctx, LinkedInClient(access_token, person_id, ctx)).slot
    ELSE slot

set_client_for_request(slot, ctx, access_token, person_id) ==
    LET client == LinkedInClient(access_token, person_id, ctx)
    IN  ContextVarSet(slot, ctx, client).slot

\* client_context up to its yield: the set and the token it keeps
client_context_enter(slot, ctx, access_token, person_id) ==
    ContextVarSet(slot, ctx, LinkedInClient(access_token, person_id, ctx))

\* reset written after the yield without try/finally: skipped when the body raises
client_context_exit_no_finally(slot, ctx, token, body_raised) ==
    IF body_raised THEN slot ELSE ContextVarReset(slot, ctx, token)

\* client_context after its yield: the finally clause runs on both exits
client_context_exit(slot, ctx, token, body_raised) ==
    ContextVarReset(slot, ctx, token)

(***************************************************************************)
(* server.py, module body: the order of the start-up statements            *)
(***************************************************************************)
\* apply_patch() (its import of linkedin_mcp_scheduler.server, then its
\* assignment of get_client), from ... import mcp, the import of the daemon
\* module, the two assignments into it, _daemon_thread.start(), main()
BootOrder ==
    <<"start", "library_imported", "client_patched", "mcp_imported",
      "daemon_module_imported", "db_patched", "build_client_patched",
      "daemon_started", "serving">>

BootIndex(b) == CHOOSE i \in 1..Len(BootOrder) : BootOrder[i] = b

\* the accessor slot assigned on the way to boot position b, if any
BootAssigns(b) ==
    CASE b = "client_patched" -> <<"get_client", "patched_get_client">>
      [] b = "db_patched" -> <<"get_db", "_thread_local_get_db">>
      [] b = "build_client_patched" -> <<"_build_client", "_build_client_from_store">>
      [] OTHER -> <<>>

\* whether boot position b is at or past position p
AtOrPast(b, p) == BootIndex(b) >= BootIndex(p)

Boot ==
    /\ boot # "serving"
    /\ LET next == BootOrder[BootIndex(boot) + 1]
           asg == BootAssigns(next)
       IN  /\ boot' = next
           /\ IF asg = <<>>
              THEN UNCHANGED <<accessors, installs>>
              ELSE /\ accessors' = [accessors EXCEPT ![asg[1]] = asg[2]]
                   /\ installs' = [installs EXCEPT ![asg[1]] = @ + 1]
    /\ dpc' = IF BootOrder[BootIndex(boot) + 1] = "daemon_started"
              THEN "started" ELSE dpc
    /\ UNCHANGED <<ctxVars, dbVars, store, tick, poll_interval>>

(***************************************************************************)
(* Logical requests                                                        *)
(***************************************************************************)
NoOp == [op |-> "none", raised |-> "", value |-> None, expect |-> None, via |-> ""]

RequestEnter(r) ==
    /\ boot = "serving"
    /\ phase[r] = "idle"
    /\ phase' = [phase EXCEPT ![r] = "active"]
    /\ UNCHANGED <<bootVars, dbVars, daemonVars, request_client, tokens, pre, last>>

\* the request handler returns or raises; all its with-blocks have been left
RequestExit(r, raised) ==
    /\ phase[r] = "active"
    /\ tokens[r] = <<>>
    /\ phase' = [phase EXCEPT ![r] = "done"]
    /\ last' = [last EXCEPT ![r] =
                  [op |-> "request_exit",
                   raised |-> IF raised THEN "Exception" ELSE "",
                   value |-> None, expect |-> last[r].expect, via |-> ""]]
    /\ UNCHANGED <<bootVars, dbVars, daemonVars, request_client, tokens, pre>>

\* with client_context(access_token, person_id): ... entered
EnterContext(r, cred) ==
    /\ phase[r] = "active"
    /\ Len(tokens[r]) < MaxDepth
    /\ LET res == client_context_enter(request_client, r,
                                       cred.access_token, cred.person_id)
       IN  /\ request_client' = res.slot
           /\ tokens' = [tokens EXCEPT ![r] = Append(@, res.token)]
    /\ pre' = [pre EXCEPT ![r] = Append(@, ContextVarGet(request_client, r))]
    /\ last' = [last EXCEPT ![r] =
                  [op |-> "enter", raised |-> "", value |-> None,
                   expect |-> LinkedInClient(cred.access_token, cred.person_id, r),
                   via |-> ""]]
    /\ UNCHANGED <<bootVars, dbVars, daemonVars, phase>>

\* the innermost with-block is left, normally or by an exception of its body
ExitContext(r, body_raised) ==
    /\ phase[r] = "active"
    /\ tokens[r] # <<>>
    /\ LET n == Len(tokens[r])
       IN  /\ request_client' =
                 client_context_exit(request_client, r, tokens[r][n], body_raised)
           /\ tokens' = [tokens EXCEPT ![r] = SubSeq(@, 1, n - 1)]
           /\ pre' = [pre EXCEPT ![r] = SubSeq(@, 1, n - 1)]
           /\ last' = [last EXCEPT ![r] =
                         [op |-> "exit",
                          raised |-> IF body_raised THEN "Exception" ELSE "",
                          value |-> pre[r][n], expect |-> pre[r][n], via |-> ""]]
    /\ UNCHANGED <<bootVars, dbVars, daemonVars, phase>>

SetClient(r, cred) ==
    /\ phase[r] = "active"
    /\ request_client' =
          set_client_for_request(request_client, r, cred.access_token, cred.person_id)
    /\ last' = [last EXCEPT ![r] =
                  [op |-> "set", raised |-> "", value |-> None,
                   expect |-> LinkedInClient(cred.access_token, cred.person_id, r),
                   via |-> ""]]
    /\ UNCHANGED <<bootVars, dbVars, daemonVars, tokens, pre, phase>>

\* library code calls get_client() in the request's execution context
GetClient(r) ==
    /\ phase[r] \in {"active", "done"}
    /\ LET res == get_client(accessors.get_client, request_client, r)
       IN  last' = [last EXCEPT ![r] =
                      [op |-> "get", raised |-> res.raised, value |-> res.value,
                       expect |-> last[r].expect, via |-> accessors.get_client]]
    /\ UNCHANGED <<bootVars, dbVars, daemonVars, request_client, tokens, pre, phase>>

\* library code run by the main thread during start-up calls get_client():
\* possible once the tool module exists, before or after apply_patch's
\* assignment
MainGet ==
    /\ AtOrPast(boot, "library_imported")
    /\ boot # "serving"
    /\ LET res == get_client(accessors.get_client, request_client, MainContext)
       IN  last' = [last EXCEPT ![MainContext] =
                      [op |-> "get", raised |-> res.raised, value |-> res.value,
                       expect |-> None, via |-> accessors.get_client]]
    /\ UNCHANGED <<bootVars, dbVars, daemonVars, request_client, tokens, pre, phase>>

CtxNext ==
    \E r \in Requests :
        \/ RequestEnter(r)
        \/ \E raised \in BOOLEAN : RequestExit(r, raised)
        \/ \E cred \in Credentials : EnterContext(r, cred)
        \/ \E body_raised \in BOOLEAN : ExitContext(r, body_raised)
        \/ \E cred \in Credentials : SetClient(r, cred)
        \/ GetClient(r)

(***************************************************************************)
(* server.py: the thread-local get_db                                      *)
(***************************************************************************)
DaemonThread == "publisher-daemon"
Workers == {"worker-1", "worker-2"}
Threads == Workers \cup {DaemonThread}

\* _db_module.DB_PATH, the library's default database path
DB_PATH == "scheduled_posts.db"

\* the db_path arguments callers pass
PathArgs == {NoneStr, "", DB_PATH, "other.db"}

\* db_path or _db_module.DB_PATH: None and the empty string are falsy
Resolve(db_path) == IF db_path \in {NoneStr, ""} THEN DB_PATH ELSE db_path

\* a module-level global instead of threading.local()
ThreadLocalStoreGlobal(tl, t, h) == [x \in DOMAIN tl |-> h]

\* _thread_local.db = db: sets the attribute of the calling thread only
ThreadLocalStore(tl, t, h) == [tl EXCEPT ![t] = h]

\* getattr(_thread_local, "db", None): the calling thread's attribute
ThreadLocalGet(tl, t) == tl[t]

\* db.close()
Close(hs, h) == [hs EXCEPT ![h].closed = TRUE]

\* ScheduledPostsDB(resolved): a new object, which stores its path
Open(hs, path, t) ==
    Append(hs, [db_path |-> path, closed |-> FALSE, opener |-> t, given_to |-> {}])

\* never compares the cached path: closes and reopens on every call
thread_local_get_db_no_reuse(tl, hs, t, db_path, open_ok) ==
    LET resolved == Resolve(db_path)
        db0 == ThreadLocalGet(tl, t)
        hs1 == IF db0 # 0 THEN Close(hs, db0) ELSE hs
        ev1 == IF db0 # 0 THEN << <<"close", db0>> >> ELSE <<>>
    IN  IF open_ok
        THEN [tl |-> ThreadLocalStore(tl, t, Len(hs1) + 1),
              hs |-> Open(hs1, resolved, t), raised |-> "",
              ret |-> Len(hs1) + 1,
              events |-> Append(ev1, <<"open", Len(hs1) + 1>>)]
        ELSE [tl |-> tl, hs |-> hs1, raised |-> "OpenError", ret |-> 0,
              events |-> Append(ev1, <<"open_failed", 0>>)]

\* replaces the cached handle on a path change without closing it
thread_local_get_db_no_close(tl, hs, t, db_path, open_ok) ==
    LET resolved == Resolve(db_path)
        db0 == ThreadLocalGet(tl, t)
        mismatch == db0 # 0 /\ hs[db0].db_path # resolved
        db1 == IF mismatch THEN 0 ELSE db0
    IN  IF db1 = 0
        THEN IF open_ok
             THEN [tl |-> ThreadLocalStore(tl, t, Len(hs) + 1),
                   hs |-> Open(hs, resolved, t), raised |-> "",
                   ret |-> Len(hs) + 1, events |-> << <<"open", Len(hs) + 1>> >>]
             ELSE [tl |-> tl, hs |-> hs, raised |-> "OpenError", ret |-> 0,
                   events |-> << <<"open_failed", 0>> >>]
        ELSE [tl |-> tl, hs |-> hs, raised |-> "", ret |-> db1, events |-> <<>>]

\* _thread_local_get_db(db_path); open_ok: whether ScheduledPostsDB(resolved)
\* returns (TRUE) or raises (FALSE)
thread_local_get_db(tl, hs, t, db_path, open_ok) ==
    LET resolved == Resolve(db_path)
        db0 == ThreadLocalGet(tl, t)
        mismatch == db0 # 0 /\ hs[db0].db_path # resolved
        \* if db is not None and db._db_path != resolved: db.close(); db = None
        hs1 == IF mismatch THEN Close(hs, db0) ELSE hs
        ev1 == IF mismatch THEN << <<"close", db0>> >> ELSE <<>>
        db1 == IF mismatch THEN 0 ELSE db0
    IN  IF db1 = 0
        THEN IF open_ok
             THEN \* db = ScheduledPostsDB(resolved); _thread_local.db = db
                  [tl |-> ThreadLocalStore(tl, t, Len(hs1) + 1),
                   hs |-> Open(hs1, resolved, t), raised |-> "",
                   ret |-> Len(hs1) + 1,
                   events |-> Append(ev1, <<"open", Len(hs1) + 1>>)]
             ELSE \* the constructor raises: the attribute is not assigned
                  [tl |-> tl, hs |-> hs1, raised |-> "OpenError", ret |-> 0,
                   events |-> Append(ev1, <<"open_failed", 0>>)]
        ELSE [tl |-> tl, hs |-> hs1, raised |-> "", ret |-> db1, events |-> ev1]

NoCall == [thread |-> "", db_path |-> NoneStr, resolved |-> "", before |-> 0,
           raised |-> "", ret |-> 0, events |-> <<>>]

\* the record of one call by thread t, and the handle table with the returned
\* object marked as given to t
CallRecord(t, db_path, res) ==
    [thread |-> t, db_path |-> db_path, resolved |-> Resolve(db_path),
     before |-> cache[t], raised |-> res.raised, ret |-> res.ret,
     events |-> res.events]

Given(hs, h, t) ==
    IF h = 0 THEN hs ELSE [hs EXCEPT ![h].given_to = @ \cup {t}]

\* code running on a worker thread calls _daemon_module.get_db(db_path)
GetDb(t, db_path, open_ok) ==
    /\ boot = "serving"
    /\ accessors.get_db = "_thread_local_get_db"
    /\ LET res == thread_local_get_db(cache, handles, t, db_path, open_ok)
       IN  /\ Len(res.hs) <= MaxHandles
           /\ cache' = res.tl
           /\ handles' = Given(res.hs, res.ret, t)
           /\ dbcall' = CallRecord(t, db_path, res)
    /\ UNCHANGED <<bootVars, ctxVars, daemonVars>>

DbNext ==
    \E t \in Workers, db_path \in PathArgs, open_ok \in BOOLEAN :
        GetDb(t, db_path, open_ok)

(***************************************************************************)
(* server.py: the credential store, _build_client_from_store, _daemon_loop *)
(***************************************************************************)
\* store.get_any_linkedin_token() returned None
NoCreds == [access_token |-> "", person_id |-> NoneStr]

\* what store.get_any_linkedin_token() can return for the store's contents
GetAnyLinkedinToken(st) == IF st = {} THEN {NoCreds} ELSE st

\* keeps the client of an earlier call instead of asking the store again
build_client_from_store_cached(creds) ==
    IF tick.client.kind = "LinkedInClient"
    THEN [raised |-> "", value |-> tick.client]
    ELSE IF creds = NoCreds
    THEN [raised |-> "RuntimeError", value |-> None]
    ELSE [raised |-> "",
          value |-> LinkedInClient(creds.access_token, NoneStr, DaemonThread)]

\* takes the client a request has installed in the context variable, if any
build_client_from_request_slot(creds) ==
    IF \E r \in Requests : request_client[r] # MISSING
    THEN [raised |-> "",
          value |-> request_client[CHOOSE r \in Requests : request_client[r] # MISSING]]
    ELSE IF creds = NoCreds
    THEN [raised |-> "RuntimeError", value |-> None]
    ELSE [raised |-> "",
          value |-> LinkedInClient(creds.access_token, NoneStr, DaemonThread)]

\* _build_client_from_store(), given what the store lookup returned
build_client_from_store(creds) ==
    IF creds = NoCreds
    THEN [raised |-> "RuntimeError", value |-> None]
    ELSE [raised |-> "",
          value |-> LinkedInClient(creds.access_token, NoneStr, DaemonThread)]

\* the exception classes a run_once can end with ("" : it returned):
\* RuntimeError, another Exception, or a BaseException that is no Exception
\* (SystemExit, KeyboardInterrupt, GeneratorExit)
WorkOutcomes == {"", "RuntimeError", "Exception", "BaseException"}

\* linkedin_mcp_scheduler.daemon.run_once(): resolves a client through
\* _build_client, takes its storage handle through get_db, then does the work
run_once(creds, tl, hs, open_ok, work) ==
    LET built == build_client_from_store(creds)
        db == thread_local_get_db(tl, hs, DaemonThread, NoneStr, open_ok)
    IN  IF built.raised # ""
        THEN [raised |-> built.raised, cause |-> "no_credentials",
              client |-> None, called_db |-> FALSE, db |-> db]
        ELSE IF db.raised # ""
        THEN [raised |-> "Exception", cause |-> "db_open",
              client |-> built.value, called_db |-> TRUE, db |-> db]
        ELSE [raised |-> work, cause |-> IF work = "" THEN "" ELSE "work",
              client |-> built.value, called_db |-> TRUE, db |-> db]

\* a loop body whose except RuntimeError branch calls run_once a second time
daemon_loop_handler_retry_in_place(raised) ==
    CASE raised = "" -> [log |-> "", escaped |-> FALSE, runs |-> 1, then |-> "sleep"]
      [] raised = "RuntimeError" ->
            [log |-> "debug", escaped |-> FALSE, runs |-> 2, then |-> "sleep"]
      [] raised = "Exception" ->
            [log |-> "error", escaped |-> FALSE, runs |-> 1, then |-> "sleep"]
      [] OTHER -> [log |-> "", escaped |-> TRUE, runs |-> 1, then |-> "dead"]

\* a loop body whose except RuntimeError branch ends with continue
daemon_loop_handler_continue_on_skip(raised) ==
    CASE raised = "" -> [log |-> "", escaped |-> FALSE, runs |-> 1, then |-> "sleep"]
      [] raised = "RuntimeError" ->
            [log |-> "debug", escaped |-> FALSE, runs |-> 1, then |-> "run"]
      [] raised = "Exception" ->
            [log |-> "error", escaped |-> FALSE, runs |-> 1, then |-> "sleep"]
      [] OTHER -> [log |-> "", escaped |-> TRUE, runs |-> 1, then |-> "dead"]

\* the try/except of _daemon_loop around run_once: what is logged, whether the
\* exception leaves the loop, how many times run_once was called in this pass
\* and the statement that follows: time.sleep after a return and after either
\* except clause; an exception neither clause matches is not caught, nothing
\* is logged and it ends _daemon_loop
daemon_loop_handler(raised) ==
    CASE raised = "" -> [log |-> "", escaped |-> FALSE, runs |-> 1, then |-> "sleep"]
      [] raised = "RuntimeError" ->
            [log |-> "debug", escaped |-> FALSE, runs |-> 1, then |-> "sleep"]
      [] raised = "Exception" ->
            [log |-> "error", escaped |-> FALSE, runs |-> 1, then |-> "sleep"]
      [] OTHER -> [log |-> "", escaped |-> TRUE, runs |-> 1, then |-> "dead"]

\* Strings are sequences of code points: <<32, 53>> is " 5".
\* Python integers are unbounded: they are kept as a sign and the decimal
\* digits of the magnitude, most significant first, without leading zeros.

\* the characters int() skips at both ends of its argument: the ASCII
\* whitespace of the C parser and the non-ASCII Unicode whitespace, which int()
\* first turns into spaces (the ASCII separators 28..31 are not skipped)
AsciiSpace == {9, 10, 11, 12, 13, 32}

UnicodeSpace ==
    {133, 160, 5760} \cup (8192..8202) \cup {8232, 8233, 8239, 8287, 12288}

IsSpace(c) == c \in AsciiSpace \cup UnicodeSpace

\* the code point of the digit zero of every Unicode decimal digit block
\* (category Nd, Unicode 14): int() reads each block's ten digits as 0..9
DecimalZeros ==
    {
      48, 1632, 1776, 1984, 2406, 2534, 2662, 2790, 2918,
      3046, 3174, 3302, 3430, 3558, 3664, 3792, 3872, 4160,
      4240, 6112, 6160, 6470, 6608, 6784, 6800, 6992, 7088,
      7232, 7248, 42528, 43216, 43264, 43472, 43504, 43600, 44016,
      65296, 66720, 68912, 69734, 69872, 69942, 70096, 70384, 70736,
      70864, 71248, 71360, 71472, 71904, 72016, 72784, 73040, 73120,
      92768, 92864, 93008, 120782, 120792, 120802, 120812, 120822, 123200,
      123632, 125264, 130032
    }

IsDigit(c) == \E z \in DecimalZeros : c \in z..(z + 9)

DigitValue(c) == c - (CHOOSE z \in DecimalZeros : c \in z..(z + 9))

\* the string without its leading whitespace
LStrip(s) ==
    LET kept == {i \in 1..Len(s) : ~IsSpace(s[i])}
    IN  IF kept = {} THEN <<>>
        ELSE SubSeq(s, CHOOSE i \in kept : \A j \in kept : i <= j, Len(s))

\* the string without its trailing whitespace
RStrip(s) ==
    LET kept == {i \in 1..Len(s) : ~IsSpace(s[i])}
    IN  IF kept = {} THEN <<>>
        ELSE SubSeq(s, 1, CHOOSE i \in kept : \A j \in kept : j <= i)

\* a magnitude without its leading zeros (zero is <<0>>)
Canonical(d) ==
    LET nonzero == {i \in 1..Len(d) : d[i] # 0}
    IN  IF nonzero = {} THEN <<0>>
        ELSE SubSeq(d, CHOOSE i \in nonzero : \A j \in nonzero : i <= j, Len(d))

\* a < b, for magnitudes without leading zeros
MagLess(a, b) ==
    IF Len(a) # Len(b) THEN Len(a) < Len(b)
    ELSE LET differ == {i \in 1..Len(a) : a[i] # b[i]}
         IN  /\ differ # {}
             /\ LET first == CHOOSE i \in differ : \A j \in differ : i <= j
                IN  a[first] < b[first]

\* a + b + carry, digit by digit from the right
RECURSIVE MagAddCarry(_, _, _)
MagAddCarry(a, b, carry) ==
    IF a = <<>> /\ b = <<>>
    THEN IF carry = 0 THEN <<>> ELSE <<carry>>
    ELSE LET x == IF a = <<>> THEN 0 ELSE a[Len(a)]
             y == IF b = <<>> THEN 0 ELSE b[Len(b)]
             a2 == IF a = <<>> THEN <<>> ELSE SubSeq(a, 1, Len(a) - 1)
             b2 == IF b = <<>> THEN <<>> ELSE SubSeq(b, 1, Len(b) - 1)
             sum == x + y + carry
         IN  Append(MagAddCarry(a2, b2, sum \div 10), sum % 10)

MagAdd(a, b) == Canonical(MagAddCarry(a, b, 0))

\* the digits of a literal's body, underscores left out
LiteralDigits(body) ==
    LET ds == SelectSeq(body, IsDigit)
    IN  [i \in 1..Len(ds) |-> DigitValue(ds[i])]

\* sys.int_info.default_max_str_digits: the most digits int() converts
MaxStrDigits == 4300

\* Python's int(str), base 10: whitespace is stripped at both ends, then an
\* optional sign and a run of decimal digits in which single underscores may
\* stand between two digits, of at most MaxStrDigits digits; anything else
\* raises ValueError
int(str) ==
    LET s == RStrip(LStrip(str))
        signed == s # <<>> /\ s[1] \in {43, 45}
        body == IF signed THEN Tail(s) ELSE s
        wellformed ==
            /\ body # <<>>
            /\ IsDigit(body[1])
            /\ IsDigit(body[Len(body)])
            /\ \A i \in 1..Len(body) : IsDigit(body[i]) \/ body[i] = 95
            /\ \A i \in 1..(Len(body) - 1) : ~(body[i] = 95 /\ body[i + 1] = 95)
            /\ Len(LiteralDigits(body)) <= MaxStrDigits
        digits == Canonical(LiteralDigits(body))
    IN  IF ~wellformed
        THEN [raised |-> "ValueError", value |-> [neg |-> FALSE, digits |-> <<0>>]]
        ELSE [raised |-> "",
              value |-> [neg |-> signed /\ s[1] = 45 /\ digits # <<0>>,
                         digits |-> digits]]

\* the process environment's POLL_INTERVAL_SECONDS: not set, or set to
\* "0", "-1", "abc", "1.5", "", " 5", "5\n", "\t7\t", "1_0", "5_",
\* U+0665 (ARABIC-INDIC DIGIT FIVE), U+001C "5", "9223372000",
\* "9223372036", "9223372037", "-9223372037", and 4301 times "9"
PollEnvs ==
    {[set |-> FALSE, value |-> <<>>]}
        \cup {[set |-> TRUE, value |-> v] :
                v \in {<<48>>, <<45, 49>>, <<97, 98, 99>>, <<49, 46, 53>>, <<>>,
                       <<32, 53>>, <<53, 10>>, <<9, 55, 9>>, <<49, 95, 48>>,
                       <<53, 95>>, <<1637>>, <<28, 53>>,
                       <<57, 50, 50, 51, 51, 55, 50, 48, 48, 48>>,
                       <<57, 50, 50, 51, 51, 55, 50, 48, 51, 54>>,
                       <<57, 50, 50, 51, 51, 55, 50, 48, 51, 55>>,
                       <<45, 57, 50, 50, 51, 51, 55, 50, 48, 51, 55>>,
                       [i \in 1..(MaxStrDigits + 1) |-> 57]}}

\* os.environ.get("POLL_INTERVAL_SECONDS", "60")
EnvironGet(env) == IF env.set THEN env.value ELSE <<54, 48>>

\* the largest 64-bit timestamp, in nanoseconds: time.sleep converts its
\* argument to one, then adds it to the monotonic clock for its deadline
Int64Max == <<9, 2, 2, 3, 3, 7, 2, 0, 3, 6, 8, 5, 4, 7, 7, 5, 8, 0, 7>>

\* the largest number of whole seconds whose nanoseconds fit the timestamp
SleepMax == SubSeq(Int64Max, 1, Len(Int64Max) - 9)

\* a number of whole seconds in nanoseconds
Nanoseconds(secs) == Canonical(secs \o <<0, 0, 0, 0, 0, 0, 0, 0, 0>>)

\* readings of the monotonic clock, in nanoseconds, when time.sleep is called:
\* 0.5 s, 0.854775807 s, 0.854775808 s, 1 s, one day, and 4611686018 s, about
\* the latest reading the kernel lets the clock be set to
ClockNanos ==
    {<<5, 0, 0, 0, 0, 0, 0, 0, 0>>,
     <<8, 5, 4, 7, 7, 5, 8, 0, 7>>,
     <<8, 5, 4, 7, 7, 5, 8, 0, 8>>,
     Nanoseconds(<<1>>),
     Nanoseconds(<<8, 6, 4, 0, 0>>),
     Nanoseconds(<<4, 6, 1, 1, 6, 8, 6, 0, 1, 8>>)}

\* time.sleep(secs), called at clock reading now: OverflowError for a length
\* whose nanoseconds do not fit the timestamp, whatever its sign, ValueError
\* for any other negative length, OSError (EINVAL) when the deadline
\* now + secs is past the largest timestamp; otherwise the thread sleeps and
\* the call returns
time_sleep(secs, now) ==
    IF MagLess(SleepMax, secs.digits) THEN [raised |-> "OverflowError"]
    ELSE IF secs.neg THEN [raised |-> "ValueError"]
    ELSE IF MagLess(Int64Max, MagAdd(Nanoseconds(secs.digits), now))
    THEN [raised |-> "OSError"]
    ELSE [raised |-> ""]

NoTick == [store_empty |-> FALSE, raised |-> "", cause |-> "", log |-> "",
           client |-> None, prev |-> "none", prev_cause |-> "", runs |-> 0,
           slept_before |-> 0, slept_after |-> 0, store_at |-> {},
           escaped |-> FALSE]

\* the thread's first statement: poll_interval = int(os.environ.get(...)); a
\* ValueError raised by int() ends the thread before its first pass
DaemonStart(env) ==
    /\ dpc = "started"
    /\ LET parsed == int(EnvironGet(env))
       IN  IF parsed.raised = ""
           THEN /\ poll_interval' = <<parsed.value>>
                /\ dpc' = "run"
           ELSE /\ dpc' = "dead"
                /\ UNCHANGED poll_interval
    /\ UNCHANGED <<bootVars, ctxVars, dbVars, store, tick>>

\* one pass of the while loop up to time.sleep
DaemonTick(creds, open_ok, work) ==
    /\ dpc = "run"
    /\ creds \in GetAnyLinkedinToken(store)
    /\ LET out == run_once(creds, cache, handles, open_ok, work)
           h == daemon_loop_handler(out.raised)
       IN  /\ tick' = [store_empty |-> (store = {}), raised |-> out.raised,
                       cause |-> out.cause, log |-> h.log, client |-> out.client,
                       prev |-> IF tick = NoTick THEN "first" ELSE tick.raised,
                       prev_cause |-> tick.cause, runs |-> h.runs,
                       slept_before |-> tick.slept_after, slept_after |-> 0,
                       store_at |-> store, escaped |-> h.escaped]
           /\ dpc' = IF h.escaped THEN "dead" ELSE h.then
           /\ IF out.called_db
              THEN /\ Len(out.db.hs) <= MaxHandles
                   /\ cache' = out.db.tl
                   /\ handles' = Given(out.db.hs, out.db.ret, DaemonThread)
                   /\ dbcall' = CallRecord(DaemonThread, NoneStr, out.db)
              ELSE UNCHANGED dbVars
    /\ UNCHANGED <<bootVars, ctxVars, store, poll_interval>>

\* time.sleep(poll_interval) after the try statement: it returns, or it raises
\* outside every handler and the exception ends _daemon_loop
DaemonWake ==
    /\ dpc = "sleep"
    /\ \E now \in ClockNanos :
          IF time_sleep(poll_interval[1], now).raised = ""
          THEN /\ dpc' = "run"
               /\ tick' = [tick EXCEPT !.slept_after = @ + 1]
          ELSE /\ dpc' = "dead"
               /\ UNCHANGED tick
    /\ UNCHANGED <<bootVars, ctxVars, dbVars, store, poll_interval>>

\* the OAuth flow stores a user's LinkedIn credential
StoreAdd(cred) ==
    /\ boot = "serving"
    /\ cred \notin store
    /\ store' = store \cup {cred}
    /\ UNCHANGED <<bootVars, ctxVars, dbVars, dpc, tick, poll_interval>>

\* a stored credential is revoked or expires
StoreRemove(cred) ==
    /\ boot = "serving"
    /\ cred \in store
    /\ store' = store \ {cred}
    /\ UNCHANGED <<bootVars, ctxVars, dbVars, dpc, tick, poll_interval>>

DaemonBegin == \E env \in PollEnvs : DaemonStart(env)

DaemonStep ==
    \E creds \in Credentials \cup {NoCreds}, open_ok \in BOOLEAN,
       work \in WorkOutcomes : DaemonTick(creds, open_ok, work)

StoreNext == \E cred \in Credentials : StoreAdd(cred) \/ StoreRemove(cred)

(***************************************************************************)
(* Specifications                                                          *)
(***************************************************************************)
Init ==
    /\ boot = "start"
    /\ accessors = [get_client |-> "default", get_db |-> "default",
                    _build_client |-> "default"]
    /\ installs = [get_client |-> 0, get_db |-> 0, _build_client |-> 0]
    /\ request_client = [c \in Contexts |-> MISSING]
    /\ tokens = [r \in Requests |-> <<>>]
    /\ pre = [r \in Requests |-> <<>>]
    /\ phase = [r \in Requests |-> "idle"]
    /\ last = [c \in Contexts |-> NoOp]
    /\ cache = [t \in Threads |-> 0]
    /\ handles = <<>>
    /\ dbcall = NoCall
    /\ store \in SUBSET Credentials
    /\ dpc = "not_started"
    /\ tick = NoTick
    /\ poll_interval = <<>>

\* one request that installs its credential with set_client_for_request
SysRequest ==
    \/ RequestEnter("req1")
    \/ \E raised \in BOOLEAN : RequestExit("req1", raised)
    \/ \E cred \in Credentials : SetClient("req1", cred)
    \/ GetClient("req1")

\* one worker thread that asks for the default path or for another one
SysWorker ==
    \E db_path \in {NoneStr, "other.db"}, open_ok \in BOOLEAN :
        GetDb("worker-1", db_path, open_ok)

\* the start-up sequence, with the calls library code makes during it, and the
\* logical requests
CtxSpec == Init /\ [][Boot \/ MainGet \/ CtxNext]_vars

\* the start-up sequence and get_db calls on the worker threads
DbSpec == Init /\ [][Boot \/ DbNext]_vars

\* the start-up sequence, the credential store and the daemon thread; the main
\* thread runs on, the daemon thread is scheduled, run_once ends and
\* time.sleep ends
DaemonSpec ==
    /\ Init
    /\ [][Boot \/ StoreNext \/ DaemonBegin \/ DaemonStep \/ DaemonWake]_vars
    /\ WF_vars(Boot)
    /\ WF_vars(DaemonBegin)
    /\ WF_vars(DaemonStep)
    /\ WF_vars(DaemonWake)

\* the whole process: start-up, a request, a worker thread and the daemon
\* thread in every interleaving, the store holding no or one credential and
\* POLL_INTERVAL_SECONDS not set or set to -1
SysInit == Init /\ Cardinality(store) <= 1

SysDaemonBegin ==
    \E env \in {[set |-> FALSE, value |-> <<>>], [set |-> TRUE, value |-> <<45, 49>>]} :
        DaemonStart(env)

SysSpec ==
    SysInit /\ [][Boot \/ SysRequest \/ SysWorker \/ SysDaemonBegin
                     \/ DaemonStep \/ DaemonWake]_vars

(***************************************************************************)
(* Properties                                                              *)
(***************************************************************************)
IsClient(v) == v.kind = "LinkedInClient"

\* C1 (Isolation): in every interleaving of the requests' enter, exit, set and
\* get steps, the value visible in a request's execution context, and every
\* client patched_get_client returned to it, was built by that same request;
\* a get that raised did so because its own context holds no client.
C1_Isolation ==
    \A r \in Requests :
        /\ IsClient(ContextVarGet(request_client, r))
              => ContextVarGet(request_client, r).made_in = r
        /\ last[r].op = "get" /\ last[r].raised = ""
              => IsClient(last[r].value) /\ last[r].value.made_in = r
        /\ last[r].op = "get" /\ last[r].raised # ""
              => request_client[r] = MISSING

\* req1 has read its own client while req2 holds a client of another credential
C1_Witness ==
    /\ last["req1"].op = "get"
    /\ IsClient(last["req1"].value)
    /\ phase["req2"] = "active"
    /\ IsClient(request_client["req2"])
    /\ request_client["req2"].access_token # last["req1"].value.access_token

\* C2 (Restoration): right after a client_context scope is left, normally or
\* by an exception of its body, get() in that request gives exactly what it
\* gave before the scope was entered, at every nesting depth and whatever
\* set_client_for_request did inside the body.
C2_Restoration ==
    \A r \in Requests :
        last[r].op = "exit" => ContextVarGet(request_client, r) = last[r].value

\* an inner scope was left by an exception and the outer credential is visible
\* again, the outer scope being still open
C2_Witness ==
    \E r \in Requests :
        /\ last[r].op = "exit"
        /\ last[r].raised = "Exception"
        /\ Len(tokens[r]) = 1
        /\ IsClient(last[r].value)
        /\ request_client[r] = last[r].value

\* C3 (cleared on request exit): once a request's handler has returned or
\* raised, no credential it installed, by client_context or by
\* set_client_for_request, is visible to patched_get_client in its context.
C3_ClearedOnExit ==
    \A r \in Requests :
        phase[r] = "done" => ContextVarGet(request_client, r) = None

\* C4 (Unconfigured-accessor failure): a get_client call made before
\* patched_get_client is installed raises, a call of patched_get_client raises
\* exactly when the calling context holds no credential (never set, or set
\* and reset), and a call that returns gives a LinkedInClient, never None or
\* a default client.
C4_UnconfiguredFails ==
    \A c \in Contexts :
        last[c].op = "get" =>
           /\ last[c].via # "patched_get_client" => last[c].raised = "Unauthenticated"
           /\ last[c].via = "patched_get_client" =>
                 ((request_client[c] = MISSING) <=> (last[c].raised = "RuntimeError"))
           /\ last[c].raised = "" => IsClient(last[c].value)
           /\ last[c].raised # "" => last[c].value = None

\* a call made before the installation raised, and later a request's get
\* raised in a context that holds nothing while the other request holds a
\* client
C4_Witness ==
    /\ last[MainContext].op = "get"
    /\ last[MainContext].via = "default"
    /\ last[MainContext].raised = "Unauthenticated"
    /\ \E r, o \in Requests :
          /\ r # o
          /\ last[r].op = "get"
          /\ last[r].via = "patched_get_client"
          /\ last[r].raised = "RuntimeError"
          /\ IsClient(request_client[o])

\* C5 (open failure leaves the cache empty): after a _thread_local_get_db
\* call that raised while opening, the calling thread's cache holds no handle.
C5_OpenFailureEmptiesCache ==
    dbcall.raised # "" => cache[dbcall.thread] = 0

\* C6 (Path-change invalidation): a call for a path other than the cached
\* handle's closes that handle before anything is opened, and no call ever
\* returns a handle that an earlier path change closed.
C6_PathChangeInvalidation ==
    dbcall.thread # "" =>
        /\ (dbcall.before # 0 /\ handles[dbcall.before].db_path # dbcall.resolved)
              => dbcall.events[1] = <<"close", dbcall.before>>
        /\ dbcall.raised = "" => ~handles[dbcall.ret].closed

\* a call whose cached handle has the resolved path returns that handle and
\* neither closes nor opens anything
CacheHitReturnsCached ==
    (dbcall.thread # "" /\ dbcall.before # 0
        /\ handles[dbcall.before].db_path = dbcall.resolved)
    => (dbcall.raised = "" /\ dbcall.ret = dbcall.before /\ dbcall.events = <<>>)

\* a step that closes a thread's cached handle, or puts another in its place,
\* is a call by that thread for a path other than the handle's
ClosedOnlyOnPathChange ==
    \A t \in Threads : \A h \in 1..Len(handles) :
        (cache[t] = h
            /\ (cache'[t] # h \/ (handles'[h].closed /\ ~handles[h].closed)))
        => (dbcall'.thread = t /\ dbcall'.resolved # handles[h].db_path)

\* C7 (Cache reuse): a call whose cached handle's stored path equals the
\* resolved path (None and "" resolve to DB_PATH) returns the cached handle
\* with no close and no open; a cached handle is closed or replaced only by a
\* call of the same thread that asks for a different path.
C7_CacheReuse == []CacheHitReturnsCached /\ [][ClosedOnlyOnPathChange]_vars

\* a call with no db_path was served from the cache filled under DB_PATH
C7_Witness ==
    /\ dbcall.db_path \in {NoneStr, ""}
    /\ dbcall.before # 0
    /\ dbcall.ret = dbcall.before
    /\ dbcall.events = <<>>
    /\ Len(handles) >= 2

\* no handle object has been returned to two threads
HandlesNotShared ==
    \A h \in 1..Len(handles) : Cardinality(handles[h].given_to) <= 1

\* a step leaves alone the cache, and the cached handle, of every thread other
\* than the one that made the call
OtherThreadsUntouched ==
    \A t \in Threads :
        dbcall'.thread # t =>
            /\ cache'[t] = cache[t]
            /\ cache[t] # 0 =>
                  handles'[cache[t]].closed = handles[cache[t]].closed

\* C8 (Thread affinity): in every interleaving of the threads' calls no two
\* threads receive the same handle object, also for the same path, and no
\* call by one thread closes or replaces the handle cached for another.
C8_ThreadAffinity == []HandlesNotShared /\ [][OtherThreadsUntouched]_vars

\* both workers asked for the same path and hold different objects; worker-1
\* has since closed its own, worker-2's is still open
C8_Witness ==
    \E h1, h2 \in 1..Len(handles) :
        /\ h1 # h2
        /\ handles[h1].db_path = handles[h2].db_path
        /\ handles[h1].given_to = {"worker-1"}
        /\ handles[h2].given_to = {"worker-2"}
        /\ handles[h1].closed
        /\ cache["worker-2"] = h2
        /\ ~handles[h2].closed

\* C9 (Daemon resilience): no failure raised by a pass's run_once ends
\* _daemon_loop; after every outcome of run_once the daemon goes to sleep and
\* from sleeping it makes the next pass, so the loop has no terminal state.
C9_DaemonResilience ==
    /\ [](dpc # "dead")
    /\ \A o \in WorkOutcomes :
          (dpc = "run" /\ tick # NoTick /\ tick.raised = o) ~> (dpc = "sleep")
    /\ \A o \in WorkOutcomes :
          (dpc = "sleep" /\ tick.raised = o) ~> (dpc = "run")

\* C10 (Failure classification): a tick is logged as a skip (debug) exactly
\* when the store held no credential on that tick, and a run_once that raised
\* for any other reason is logged as an error.
C10_FailureClassification ==
    tick # NoTick =>
        /\ (tick.log = "debug") <=> tick.store_empty
        /\ (tick.raised # "" /\ tick.cause # "no_credentials") => tick.log = "error"

\* C11 (One unit per tick): every pass of the daemon loop calls run_once
\* exactly once; a pass made with an empty store ends as a skip (RuntimeError
\* caught by the handler and not escaping it, debug log, no client); a pass
\* made with a stored credential builds its client from the store.
C11_OneUnitPerTick ==
    tick # NoTick =>
        /\ tick.runs = 1
        /\ tick.store_empty =>
              (tick.raised = "RuntimeError" /\ tick.cause = "no_credentials"
                  /\ tick.log = "debug" /\ tick.client = None
                  /\ ~tick.escaped)
        /\ ~tick.store_empty =>
              (IsClient(tick.client) /\ tick.cause # "no_credentials")

\* a pass that did its work with a client from the store, right after a pass
\* that was skipped for want of a credential
C11_Witness ==
    /\ tick.prev_cause = "no_credentials"
    /\ tick.raised = ""
    /\ IsClient(tick.client)
    /\ tick.runs = 1

\* C12 (No immediate retry): every run_once call but the first was preceded
\* by exactly one completed time.sleep since the call before it, whatever that
\* call's outcome; the loop never goes from run_once to run_once.
C12_NoImmediateRetry ==
    /\ tick.prev \notin {"none", "first"} => tick.slept_before = 1
    /\ tick.slept_after <= 1
    /\ (dpc = "run" /\ tick # NoTick) => tick.slept_after = 1

\* a run_once that followed a skipped pass, with one sleep between the two
C12_Witness ==
    /\ tick.prev = "RuntimeError"
    /\ tick.prev_cause = "no_credentials"
    /\ tick.slept_before = 1
    /\ dpc = "sleep"

\* C18 (No credential caching in the daemon): the client a pass builds carries
\* the access token of a credential held by the store at that pass, a pass
\* made with an empty store builds none, and one made with a stored credential
\* builds one.
C18_NoCredentialCaching ==
    tick # NoTick =>
        /\ IsClient(tick.client) =>
              \E c \in tick.store_at : c.access_token = tick.client.access_token
        /\ tick.store_at = {} => tick.client = None
        /\ tick.store_at # {} => IsClient(tick.client)

\* a pass that follows a pass with another outcome and uses the one credential
\* the store holds now
C18_Witness ==
    /\ tick.prev \notin {"none", "first"}
    /\ IsClient(tick.client)
    /\ Cardinality(tick.store_at) = 1
    /\ tick.prev_cause = "no_credentials"

\* C15 (Read-your-own-set): within one request, a get made while an
\* installation (client_context entry or set_client_for_request) is in force
\* returns the client of the latest installation not yet reverted, the
\* innermost one under nesting; right after an installation that client is
\* what the context shows.
C15_ReadYourOwnSet ==
    \A r \in Requests :
        /\ last[r].op \in {"enter", "set"}
              => patched_get_client(request_client, r)
                    = [raised |-> "", value |-> last[r].expect]
        /\ last[r].op = "get" /\ IsClient(last[r].expect)
              => (last[r].raised = "" /\ last[r].value = last[r].expect)

\* inside two nested scopes a get returned the inner credential's client,
\* which differs from the outer one
C15_Witness ==
    \E r \in Requests :
        /\ last[r].op = "get"
        /\ Len(tokens[r]) = 2
        /\ IsClient(last[r].value)
        /\ IsClient(pre[r][2])
        /\ pre[r][2].access_token # last[r].value.access_token

\* C16 (returned handles are open): every handle _thread_local_get_db
\* returns is not closed and has the resolved path as its stored path, also
\* after an earlier call of the thread failed to open another path.
C16_ReturnedHandleOpen ==
    (dbcall.thread # "" /\ dbcall.raised = "") =>
        /\ handles[dbcall.ret].db_path = dbcall.resolved
        /\ ~handles[dbcall.ret].closed

\* the handles thread t opened and has not closed
OpenHandlesOf(t) ==
    {h \in 1..Len(handles) : handles[h].opener = t /\ ~handles[h].closed}

\* C17 (at most one open handle per thread): after any sequence of calls,
\* with any paths and any open failures, a thread has at most one handle that
\* it opened and has not closed.
C17_AtMostOneOpenHandle ==
    \A t \in Threads : Cardinality(OpenHandlesOf(t)) <= 1

\* worker-1 has opened two handles, its latest call failed to open a third
\* path change and it holds no open handle
C17_Witness ==
    /\ dbcall.thread = "worker-1"
    /\ dbcall.raised = "OpenError"
    /\ Cardinality({h \in 1..Len(handles) : handles[h].opener = "worker-1"}) = 2
    /\ OpenHandlesOf("worker-1") = {}

PatchedAccessors ==
    [get_client |-> "patched_get_client", get_db |-> "_thread_local_get_db",
     _build_client |-> "_build_client_from_store"]

\* something that can call an accessor has run: a request, a get_db call or
\* the daemon thread
CallersRunning ==
    \/ \E r \in Requests : phase[r] # "idle"
    \/ dbcall # NoCall
    \/ dpc # "not_started"

\* C13 (Install-before-use and single writer): every accessor is
\* assigned at most once, get_client is already replaced when the library's
\* tool module (linkedin_mcp_scheduler.server) is imported, and all three are
\* replaced before a request or the daemon thread runs.
C13_ReplacedBeforeImport ==
    /\ \A a \in DOMAIN installs : installs[a] <= 1
    /\ AtOrPast(boot, "library_imported")
          => accessors.get_client = PatchedAccessors.get_client
    /\ CallersRunning => accessors = PatchedAccessors

\* the daemon's client is its own object, built from a stored credential, and
\* none is built from an empty store; the daemon's handle was given to the
\* daemon thread only; a request's get never returns the daemon's client
DaemonOwnsItsResources ==
    /\ IsClient(tick.client) =>
          /\ tick.client.made_in = DaemonThread
          /\ \E c \in tick.store_at : c.access_token = tick.client.access_token
    /\ (tick # NoTick /\ tick.store_at = {}) => tick.client = None
    /\ \A h \in 1..Len(handles) :
          (DaemonThread \in handles[h].given_to \/ handles[h].opener = DaemonThread)
             => (handles[h].given_to \subseteq {DaemonThread}
                   /\ handles[h].opener = DaemonThread)
    /\ \A r \in Requests :
          (last[r].op = "get" /\ IsClient(last[r].value))
             => last[r].value.made_in = r

\* a daemon step leaves every request's credential alone, and a step that is
\* not a call by the daemon thread leaves the daemon's cache and handle alone
DaemonAndRequestsApart ==
    /\ (tick' # tick \/ dpc' # dpc) => request_client' = request_client
    /\ dbcall'.thread # DaemonThread =>
          /\ cache'[DaemonThread] = cache[DaemonThread]
          /\ cache[DaemonThread] # 0 =>
                handles'[cache[DaemonThread]] = handles[cache[DaemonThread]]

\* C14 (Daemon/request independence): in every interleaving of request steps,
\* worker get_db calls and daemon passes, the daemon's client comes from the
\* credential store and never from a request's context slot, no other thread
\* receives or closes the daemon thread's handle, and no daemon step changes
\* the credential a request sees.
C14_DaemonRequestIndependence ==
    []DaemonOwnsItsResources /\ [][DaemonAndRequestsApart]_vars

\* a request holds a client for one credential while the daemon's pass used
\* another from the store, and the worker and the daemon hold different open
\* handles for the same path
C14_Witness ==
    /\ IsClient(request_client["req1"])
    /\ IsClient(tick.client)
    /\ tick.client.access_token # request_client["req1"].access_token
    /\ cache["worker-1"] # 0
    /\ cache[DaemonThread] # 0
    /\ cache["worker-1"] # cache[DaemonThread]
    /\ handles[cache["worker-1"]].db_path = handles[cache[DaemonThread]].db_path
    /\ ~handles[cache["worker-1"]].closed
    /\ ~handles[cache[DaemonThread]].closed

====
